---- MODULE Spec2Model ----
(***************************************************************************)
(* Session orchestration layer of fermion-streaming: the room registry     *)
(* (MediasoupManager), the signaling gateway (setupSocketHandlers) and the *)
(* rebroadcast pipeline (HLSTranscoder).                                   *)
(*                                                                         *)
(* Every handler is an async task.  A task runs atomically from one        *)
(* `await` of an external call (mediasoup worker request) to the next; the *)
(* task's position is kept in task[s].pc.  An `await` of a call that       *)
(* returns without issuing an external request does not let another        *)
(* socket event, timer or subprocess event run and is not a suspension     *)
(* point of the model.  Every external call may succeed or fail.           *)
(***************************************************************************)
EXTENDS Integers, Sequences, FiniteSets, TLC

\* ------------------------------------------------------------------ bounds
Sockets == {"a", "b", "c"}       \* socket.id of the connections
Streamers == {"a", "b"}          \* the connections that send requests in Spec
RoomIds == {"r1", "r2"}          \* room ids the clients name
Kinds == {"video", "audio"}

\* Spec: every interleaving of two connections' requests, every outcome of
\* every external call.
MaxRooms == 2                    \* Room objects ever allocated
MaxTransports == 1               \* WebRtcTransports ever created
MaxProducers == 4                \* Producers ever created
MaxProcs == 1                    \* ffmpeg subprocesses ever spawned
MaxInFlight == 2                 \* requests suspended at the same time

\* SpecRestart: one request at a time, enough producers for a second start.
RestartRooms == 1
RestartTransports == 1
RestartProducers == 5
RestartProcs == 2
RestartInFlight == 1

\* SpecRace: a third connection's join-room stays suspended while the other
\* two stream.
RaceRooms == 2
RaceTransports == 2
RaceProducers == 8
RacePerKind == 2                 \* Producers per connection and kind
RaceProcs == 2
RaceInFlight == 2
RaceMedia == 1

\* SpecRooms: two room ids.
RoomsRooms == 2
RoomsTransports == 1
RoomsProducers == 1
RoomsInFlight == 1

\* SpecConsume: consumers of one or two producers.
ConsumeRooms == 2
ConsumeTransports == 1
ConsumeProducers == 2
ConsumeConsumers == 1
ConsumeInFlight == 1

\* readyStreamers.length >= 2
MinStreamers == 2

VARIABLES
  rooms,       \* MediasoupManager.rooms: room id -> index into room, 0 = absent
  room,        \* every Room object ever allocated (index = object identity)
  hls,         \* room[i].hlsTranscoder: the HLSTranscoder of Room object i
  transports,  \* socket.id -> number of WebRtcTransports created on its requests
  producers,   \* socket.id, kind -> number of Producers created on its requests
  procs,       \* every ChildProcess ever spawned (index = identity)
  timers,      \* pending setTimeout callbacks of HLSTranscoder i
  files,       \* static/hls/<roomId>: the directory and what it holds
  peers,       \* socket.ts `peers` map: socket.id -> roomId, "" = no entry
  connected,   \* socket.id -> the connection is still open
  task,        \* socket.id -> the request of that socket that is in flight
  consumers,   \* every Consumer ever put into a room.consumers (index = id)
  joined,      \* socket.rooms: socket.id -> the room ids it has socket.join'ed
  out,         \* what the last step sent: a callback's reply and broadcasts
  observing    \* whether the behaviour records what is sent in out

vars == <<rooms, room, hls, transports, producers, procs, timers, files,
          peers, connected, task, consumers, joined, out, observing>>

\* The server state the manager and the transcoder read and write, as a value.
cur ==
  [rooms |-> rooms, room |-> room, hls |-> hls, transports |-> transports,
   producers |-> producers, procs |-> procs, timers |-> timers, files |-> files,
   consumers |-> consumers]

Commit(st) ==
  /\ rooms' = st.rooms
  /\ room' = st.room
  /\ hls' = st.hls
  /\ transports' = st.transports
  /\ producers' = st.producers
  /\ procs' = st.procs
  /\ timers' = st.timers
  /\ files' = st.files
  /\ consumers' = st.consumers

\* Ids of mediasoup objects are opaque and unique.  The model names the n-th
\* transport created on a request of socket s <<s, n>> and the n-th producer
\* of kind k created on a request of s <<s, k, n>>; NoId is "no object".
NoId == <<>>

AllTransports == UNION {{<<s, n>> : n \in 1..transports[s]} : s \in Sockets}

AllProducers ==
  UNION {{<<s, k, n>> : n \in 1..producers[s][k]} : s \in Sockets, k \in Kinds}

Idle == [op |-> "idle", pc |-> "", roomId |-> "", room |-> 0,
         transportId |-> NoId, kind |-> "", producer |-> NoId, consumer |-> 0,
         can |-> FALSE]

InFlight == Cardinality({s \in Sockets : task[s].op # "idle"})

\* What a step sends.  reply: the argument of the handler's callback, with the
\* socket it answers and the request; emitted: the socket.to(roomId).emit
\* broadcasts, each with the connected sockets of the room other than the
\* sender.
NoOut == [reply |-> <<>>, emitted |-> {}]

\* Nothing in the program reads what it has sent: out is written only, and a
\* behaviour that does not observe the outputs leaves it empty.
Sent(o) == IF observing THEN o ELSE NoOut

Ok(s, op, value) ==
  [to |-> s, op |-> op, success |-> TRUE, value |-> value, request |-> <<>>]

Fail(s, op) ==
  [to |-> s, op |-> op, success |-> FALSE, value |-> <<>>, request |-> <<>>]

Recipients(s, roomId) ==
  {x \in Sockets \ {s} : connected[x] /\ roomId \in joined[x]}

Emit(s, roomId, event) ==
  [event |-> event, peerId |-> s, roomId |-> roomId,
   to |-> Recipients(s, roomId), producerId |-> NoId, kind |-> ""]

\* ------------------------------------------------------- HLSTranscoder
\* s.audio && s.video
IsReady(s) == s.audio # NoId /\ s.video # NoId

readyStreamers(h) == SelectSeq(h.streamers, IsReady)

StreamerIndex(h, peerId) ==
  IF \E n \in 1..Len(h.streamers) : h.streamers[n].peerId = peerId
  THEN CHOOSE n \in 1..Len(h.streamers) : h.streamers[n].peerId = peerId
  ELSE 0

isActive(st, i) == st.hls[i].isTranscoding

ensureHlsDir(st, i) == [st EXCEPT !.files[st.room[i].id].dir = TRUE]

\* The constructor: a fresh transcoder for Room object i, and its directory.
NewHLSTranscoder ==
  [isTranscoding |-> FALSE, ffmpegProcess |-> 0, streamers |-> <<>>]

\* ChildProcess.kill(signal): delivers the signal and sets `killed` only while
\* the process has not exited.
Kill(pr, p, force) ==
  IF pr[p].state = "running"
  THEN [pr EXCEPT ![p].killed = TRUE, ![p].sigterm = @ \/ ~force,
                  ![p].sigkill = @ \/ force]
  ELSE pr

\* stop without `if (!this.isTranscoding) return`.
stopAlways(st, i) ==
  LET p == st.hls[i].ffmpegProcess IN
  [st EXCEPT
     !.hls[i].isTranscoding = FALSE,
     !.hls[i].ffmpegProcess = 0,
     !.procs = IF p # 0 THEN Kill(@, p, FALSE) ELSE @,
     !.timers[i].kill = IF p # 0 THEN @ + 1 ELSE @,
     !.timers[i].cleanup = @ + 1]

stop(st, i) ==
  IF ~st.hls[i].isTranscoding THEN st
  ELSE
    LET p == st.hls[i].ffmpegProcess IN
    [st EXCEPT
       !.hls[i].isTranscoding = FALSE,
       !.hls[i].ffmpegProcess = 0,
       !.procs = IF p # 0 THEN Kill(@, p, FALSE) ELSE @,
       !.timers[i].kill = IF p # 0 THEN @ + 1 ELSE @,
       !.timers[i].cleanup = @ + 1]

cleanupFiles(st, i) ==
  LET id == st.room[i].id IN
  IF st.files[id].dir
  THEN [st EXCEPT !.files[id].sdp = <<>>, !.files[id].playlist = FALSE]
  ELSE st

createSdpFile(streamers) ==
  <<[video |-> streamers[1].video, audio |-> streamers[1].audio],
    [video |-> streamers[2].video, audio |-> streamers[2].audio]>>

startFFMPEG(st, i) ==
  LET p == Len(st.procs) + 1 IN
  [st EXCEPT
     !.procs = Append(@, [hls |-> i, state |-> "running", killed |-> FALSE,
                          sigterm |-> FALSE, sigkill |-> FALSE]),
     !.hls[i].ffmpegProcess = p]

\* start whose catch does not reset isTranscoding.
startStuck(st, i, ready, writeOk) ==
  IF st.hls[i].isTranscoding THEN st
  ELSE
    LET st1 == ensureHlsDir([st EXCEPT !.hls[i].isTranscoding = TRUE], i) IN
    IF writeOk
    THEN startFFMPEG(
           [st1 EXCEPT !.files[st.room[i].id].sdp = createSdpFile(ready)], i)
    ELSE st1

\* start without `if (this.isTranscoding) return`.
startAgain(st, i, ready, writeOk) ==
  LET st1 == ensureHlsDir([st EXCEPT !.hls[i].isTranscoding = TRUE], i) IN
  IF writeOk
  THEN startFFMPEG(
         [st1 EXCEPT !.files[st.room[i].id].sdp = createSdpFile(ready)], i)
  ELSE [st1 EXCEPT !.hls[i].isTranscoding = FALSE]

\* writeOk: fs.writeFileSync of the SDP file succeeds.
start(st, i, ready, writeOk) ==
  IF st.hls[i].isTranscoding THEN st
  ELSE
    LET st1 == ensureHlsDir([st EXCEPT !.hls[i].isTranscoding = TRUE], i) IN
    IF writeOk
    THEN startFFMPEG(
           [st1 EXCEPT !.files[st.room[i].id].sdp = createSdpFile(ready)], i)
    ELSE [st1 EXCEPT !.hls[i].isTranscoding = FALSE]

\* checkAndStartTranscoding that counts and starts without looking at
\* isTranscoding.
checkAndStartTranscodingEach(st, i, writeOk) ==
  LET ready == readyStreamers(st.hls[i]) IN
  IF Len(ready) >= MinStreamers
  THEN startAgain(st, i, SubSeq(ready, 1, 2), writeOk)
  ELSE st

checkAndStartTranscoding(st, i, writeOk) ==
  IF st.hls[i].isTranscoding THEN st
  ELSE
    LET ready == readyStreamers(st.hls[i]) IN
    IF Len(ready) >= MinStreamers
    THEN start(st, i, SubSeq(ready, 1, 2), writeOk)
    ELSE st

\* HLSTranscoder.removePeer.  MediasoupManager.removePeerFromRoom does not
\* call it.
removePeer(st, i, peerId) ==
  LET st1 == [st EXCEPT !.hls[i].streamers =
                SelectSeq(@, LAMBDA e : e.peerId # peerId)] IN
  IF st1.hls[i].isTranscoding THEN stop(st1, i) ELSE st1

\* ---------------------------------------------------- MediasoupManager
getRoom(st, roomId) == st.rooms[roomId]

\* router.close(): the router's transports close, and the "transportclose"
\* handler of every producer on them closes it and takes it out of the index.
\* A transport of Room object i is closed exactly when room[i].routerClosed.
\* room[i].dtls holds the transports whose connect() succeeded.
RouterClose(st, i) ==
  [st EXCEPT !.room[i].routerClosed = TRUE, !.room[i].producers = {},
             !.consumers = [c \in DOMAIN @ |->
                              IF @[c].room = i
                              THEN [@[c] EXCEPT !.closed = TRUE] ELSE @[c]]]

\* producer.close() of the producers ps: mediasoup closes the consumers of a
\* closed producer; the "producerclose" handler only logs, so the closed
\* consumer stays in room.consumers.
CloseProducers(st, ps) ==
  [st EXCEPT !.consumers = [c \in DOMAIN @ |->
                              IF @[c].producerId \in ps
                              THEN [@[c] EXCEPT !.closed = TRUE] ELSE @[c]]]

cleanupRoom(st, roomId) ==
  LET i == getRoom(st, roomId) IN
  IF i = 0 THEN st
  ELSE [RouterClose(stop(st, i), i) EXCEPT !.rooms[roomId] = 0]

addPeerToRoom(st, roomId, peerId) ==
  LET i == getRoom(st, roomId) IN
  IF i = 0 THEN st ELSE [st EXCEPT !.room[i].peers = @ \cup {peerId}]

\* removePeerFromRoom without its `else` branch: HLS keeps running when a peer
\* leaves a room that stays non-empty.
removePeerFromRoomKeepsHls(st, roomId, peerId) ==
  LET i == getRoom(st, roomId) IN
  IF i = 0 THEN st
  ELSE
    LET own == {p \in st.room[i].producers : p[1] = peerId}
        st1 == [CloseProducers(st, own) EXCEPT
                  !.room[i].peers = @ \ {peerId},
                  !.room[i].producers = @ \ own]
    IN
    IF st1.room[i].peers = {} THEN cleanupRoom(st1, roomId) ELSE st1

\* removePeerFromRoom that takes the peer out of the peer set of every room
\* before it deals with the room named.
removePeerFromAllRooms(st, roomId, peerId) ==
  LET i == getRoom(st, roomId) IN
  IF i = 0 THEN st
  ELSE
    LET own == {p \in st.room[i].producers : p[1] = peerId}
        st1 == [CloseProducers(st, own) EXCEPT
                  !.room = [j \in DOMAIN @ |->
                              [@[j] EXCEPT !.peers = @ \ {peerId}]],
                  !.room[i].producers = @ \ own]
    IN
    IF st1.room[i].peers = {} THEN cleanupRoom(st1, roomId)
    ELSE IF isActive(st1, i) THEN stop(st1, i)
    ELSE st1

\* removePeerFromRoom that evaluates the start condition when the pipeline
\* is not transcoding.
removePeerFromRoomRestarts(st, roomId, peerId) ==
  LET i == getRoom(st, roomId) IN
  IF i = 0 THEN st
  ELSE
    LET own == {p \in st.room[i].producers : p[1] = peerId}
        st1 == [CloseProducers(st, own) EXCEPT
                  !.room[i].peers = @ \ {peerId},
                  !.room[i].producers = @ \ own]
    IN
    IF st1.room[i].peers = {} THEN cleanupRoom(st1, roomId)
    ELSE IF isActive(st1, i) THEN stop(st1, i)
    ELSE checkAndStartTranscoding(st1, i, TRUE)

\* removePeerFromRoom that stops the pipeline only when fewer than two ready
\* streamers other than the leaving peer remain.
removePeerFromRoomIfShort(st, roomId, peerId) ==
  LET i == getRoom(st, roomId) IN
  IF i = 0 THEN st
  ELSE
    LET own == {p \in st.room[i].producers : p[1] = peerId}
        st1 == [CloseProducers(st, own) EXCEPT
                  !.room[i].peers = @ \ {peerId},
                  !.room[i].producers = @ \ own]
        left == SelectSeq(readyStreamers(st.hls[i]),
                          LAMBDA e : e.peerId # peerId)
    IN
    IF st1.room[i].peers = {} THEN cleanupRoom(st1, roomId)
    ELSE IF isActive(st1, i) /\ Len(left) < MinStreamers THEN stop(st1, i)
    ELSE st1

removePeerFromRoom(st, roomId, peerId) ==
  LET i == getRoom(st, roomId) IN
  IF i = 0 THEN st
  ELSE
    LET own == {p \in st.room[i].producers : p[1] = peerId}
        st1 == [CloseProducers(st, own) EXCEPT
                  !.room[i].peers = @ \ {peerId},
                  !.room[i].producers = @ \ own]
    IN
    IF st1.room[i].peers = {} THEN cleanupRoom(st1, roomId)
    ELSE IF isActive(st1, i) THEN stop(st1, i)
    ELSE st1

\* The part of createRoom after `await this.worker.createRouter(...)`.
createRoomResume(st, roomId) ==
  LET i == Len(st.room) + 1
      st1 == [st EXCEPT
                !.room = Append(@, [id |-> roomId, routerClosed |-> FALSE,
                                    peers |-> {}, transports |-> {},
                                    producers |-> {}, consumers |-> {},
                                    dtls |-> {}]),
                !.hls = Append(@, NewHLSTranscoder),
                !.timers = Append(@, [kill |-> 0, cleanup |-> 0])]
  IN [ensureHlsDir(st1, i) EXCEPT !.rooms[roomId] = i]

getRoomStats(st, roomId) ==
  LET i == getRoom(st, roomId) IN
  IF i = 0 THEN [null |-> TRUE]
  ELSE [roomId |-> roomId,
        peers |-> Cardinality(st.room[i].peers),
        transports |-> Cardinality(st.room[i].transports),
        producers |-> Cardinality(st.room[i].producers),
        consumers |-> Cardinality(st.room[i].consumers),
        hasHLS |-> isActive(st, i)]

\* --------------------------------------------------- signaling handlers
\* get-hls-url without the isActive() test: the path of any registered room.
getHlsUrlOfAnyRoom(st, roomId) ==
  IF getRoom(st, roomId) # 0
  THEN [success |-> TRUE, hlsUrl |-> <<"hls", roomId, "playlist.m3u8">>]
  ELSE [success |-> FALSE, error |-> "HLS stream not available"]

\* The reply of get-hls-url.
getHlsUrl(st, roomId) ==
  LET i == getRoom(st, roomId) IN
  IF i # 0 /\ isActive(st, i)
  THEN [success |-> TRUE, hlsUrl |-> <<"hls", roomId, "playlist.m3u8">>]
  ELSE [success |-> FALSE, error |-> "HLS stream not available"]

\* join-room when the room is registered: createRoom returns it at once.
JoinRoom(s, roomId) ==
  /\ UNCHANGED observing
  /\ connected[s] /\ task[s].op = "idle"
  /\ getRoom(cur, roomId) # 0
  /\ Commit(addPeerToRoom(cur, roomId, s))
  /\ peers' = [peers EXCEPT ![s] = roomId]
  /\ joined' = [joined EXCEPT ![s] = @ \cup {roomId}]
  /\ out' = Sent([reply |-> Ok(s, "join-room",
                     getRoomStats(addPeerToRoom(cur, roomId, s), roomId)),
                  emitted |-> {Emit(s, roomId, "peer-joined")}])
  /\ UNCHANGED <<connected, task>>

\* join-room when the room is not registered: createRoom awaits createRouter.
JoinRoomCreate(s, roomId) ==
  /\ UNCHANGED observing
  /\ connected[s] /\ task[s].op = "idle"
  /\ getRoom(cur, roomId) = 0
  /\ task' = [task EXCEPT ![s] =
               [Idle EXCEPT !.op = "join-room", !.pc = "createRouter",
                            !.roomId = roomId]]
  /\ out' = NoOut
  /\ UNCHANGED <<rooms, room, hls, transports, producers, procs, timers,
                 files, consumers, peers, connected, joined>>

\* createRouter resolved (ok) or rejected: the rest of createRoom and of the
\* join-room handler.
JoinRoomResume(s, ok) ==
  /\ UNCHANGED observing
  /\ task[s].op = "join-room"
  /\ task' = [task EXCEPT ![s] = Idle]
  /\ IF ok
     THEN LET r == task[s].roomId
              st == addPeerToRoom(createRoomResume(cur, r), r, s) IN
          /\ Commit(st)
          /\ peers' = [peers EXCEPT ![s] = r]
          /\ joined' = [joined EXCEPT ![s] = @ \cup {r}]
          /\ out' = Sent([reply |-> Ok(s, "join-room", getRoomStats(st, r)),
                          emitted |-> {Emit(s, r, "peer-joined")}])
     ELSE /\ out' = Sent([NoOut EXCEPT !.reply = Fail(s, "join-room")])
          /\ UNCHANGED <<rooms, room, hls, transports, producers, procs,
                         timers, files, consumers, peers, joined>>
  /\ UNCHANGED connected

\* create-transport up to `await room.router.createWebRtcTransport(...)`.
CreateTransport(s, roomId) ==
  /\ UNCHANGED observing
  /\ connected[s] /\ task[s].op = "idle"
  /\ getRoom(cur, roomId) # 0
  /\ task' = [task EXCEPT ![s] =
               [Idle EXCEPT !.op = "create-transport",
                            !.pc = "createWebRtcTransport",
                            !.roomId = roomId, !.room = getRoom(cur, roomId)]]
  /\ out' = NoOut
  /\ UNCHANGED <<rooms, room, hls, transports, producers, procs, timers,
                 files, consumers, peers, connected, joined>>

CreateTransportResume(s, ok) ==
  /\ UNCHANGED observing
  /\ task[s].op = "create-transport"
  /\ task' = [task EXCEPT ![s] = Idle]
  /\ IF ok
     THEN LET i == task[s].room
              t == <<s, transports[s] + 1>> IN
          /\ transports' = [transports EXCEPT ![s] = @ + 1]
          /\ room' = [room EXCEPT ![i].transports = @ \cup {t}]
          /\ out' = Sent([NoOut EXCEPT !.reply = Ok(s, "create-transport", t)])
     ELSE /\ out' = Sent([NoOut EXCEPT !.reply = Fail(s, "create-transport")])
          /\ UNCHANGED <<room, transports>>
  /\ UNCHANGED <<rooms, hls, producers, procs, timers, files, consumers,
                 peers, connected, joined>>

\* produce up to `await transport.produce(...)`.
Produce(s, roomId, transportId, kind) ==
  /\ UNCHANGED observing
  /\ connected[s] /\ task[s].op = "idle"
  /\ getRoom(cur, roomId) # 0
  /\ transportId \in room[getRoom(cur, roomId)].transports
  /\ task' = [task EXCEPT ![s] =
               [Idle EXCEPT !.op = "produce", !.pc = "transport.produce",
                            !.roomId = roomId, !.room = getRoom(cur, roomId),
                            !.transportId = transportId, !.kind = kind]]
  /\ out' = NoOut
  /\ UNCHANGED <<rooms, room, hls, transports, producers, procs, timers,
                 files, consumers, peers, connected, joined>>

\* transport.produce resolved: the producer is indexed and addProducer runs up
\* to `await this.router.createPlainTransport(...)`.
ProduceCreated(s, ok) ==
  /\ UNCHANGED observing
  /\ task[s].op = "produce" /\ task[s].pc = "transport.produce"
  /\ IF ok
     THEN LET i == task[s].room
              k == task[s].kind
              p == <<s, k, producers[s][k] + 1>> IN
          /\ producers' = [producers EXCEPT ![s][k] = @ + 1]
          /\ room' = [room EXCEPT ![i].producers = @ \cup {p}]
          /\ hls' = IF StreamerIndex(hls[i], s) = 0
                    THEN [hls EXCEPT ![i].streamers =
                           Append(@, [peerId |-> s, video |-> NoId,
                                      audio |-> NoId])]
                    ELSE hls
          /\ task' = [task EXCEPT ![s].pc = "createPlainTransport",
                                  ![s].producer = p]
          /\ out' = NoOut
     ELSE /\ task' = [task EXCEPT ![s] = Idle]
          /\ out' = Sent([NoOut EXCEPT !.reply = Fail(s, "produce")])
          /\ UNCHANGED <<room, hls, producers>>
  /\ UNCHANGED <<rooms, transports, procs, timers, files, consumers, peers,
                 connected, joined>>

\* The produce handler after mediasoupManager.produce returned: the
\* new-producer broadcast and the callback.
ProduceDone(s) ==
  Sent([reply |-> Ok(s, "produce", task[s].producer),
        emitted |-> {[Emit(s, task[s].roomId, "new-producer")
                        EXCEPT !.producerId = task[s].producer,
                               !.kind = task[s].kind]}])

\* addProducer without its try/catch: a rejected createPlainTransport
\* rejects produce and the handler answers with a failure.
ProducePlainTransportThrows(s, ok) ==
  /\ UNCHANGED observing
  /\ task[s].op = "produce" /\ task[s].pc = "createPlainTransport"
  /\ task' = [task EXCEPT ![s] =
               IF ok THEN [@ EXCEPT !.pc = "transport.consume"] ELSE Idle]
  /\ out' = IF ok THEN NoOut
            ELSE Sent([NoOut EXCEPT !.reply = Fail(s, "produce")])
  /\ UNCHANGED <<rooms, room, hls, transports, producers, procs, timers,
                 files, consumers, peers, connected, joined>>

\* createPlainTransport resolved: addProducer goes on to
\* `await transport.consume(...)`; a rejection ends addProducer in its catch.
ProducePlainTransport(s, ok) ==
  /\ UNCHANGED observing
  /\ task[s].op = "produce" /\ task[s].pc = "createPlainTransport"
  /\ task' = [task EXCEPT ![s] =
               IF ok THEN [@ EXCEPT !.pc = "transport.consume"] ELSE Idle]
  /\ out' = IF ok THEN NoOut ELSE ProduceDone(s)
  /\ UNCHANGED <<rooms, room, hls, transports, producers, procs, timers,
                 files, consumers, peers, connected, joined>>

\* transport.consume resolved: the streamer's video or audio entry is set and
\* addProducer goes on to `await consumer.resume()`.
ProduceConsume(s, ok) ==
  /\ UNCHANGED observing
  /\ task[s].op = "produce" /\ task[s].pc = "transport.consume"
  /\ IF ok
     THEN LET i == task[s].room
              n == StreamerIndex(hls[i], s) IN
          /\ hls' = IF task[s].kind = "video"
                    THEN [hls EXCEPT ![i].streamers[n].video = task[s].producer]
                    ELSE [hls EXCEPT ![i].streamers[n].audio = task[s].producer]
          /\ task' = [task EXCEPT ![s].pc = "consumer.resume"]
          /\ out' = NoOut
     ELSE /\ task' = [task EXCEPT ![s] = Idle]
          /\ out' = ProduceDone(s)
          /\ UNCHANGED hls
  /\ UNCHANGED <<rooms, room, transports, producers, procs, timers, files, consumers,
                 peers, connected, joined>>

\* consumer.resume resolved: checkAndStartTranscoding, then produce returns.
ProduceResume(s, ok, writeOk) ==
  /\ UNCHANGED observing
  /\ task[s].op = "produce" /\ task[s].pc = "consumer.resume"
  /\ task' = [task EXCEPT ![s] = Idle]
  /\ out' = ProduceDone(s)
  /\ IF ok
     THEN Commit(checkAndStartTranscoding(cur, task[s].room, writeOk))
     ELSE UNCHANGED <<rooms, room, hls, transports, producers, procs, timers,
                      files, consumers>>
  /\ UNCHANGED <<peers, connected, joined>>

\* A handler that throws before its first await: the callback gets
\* {success: false, error} and nothing else happens.
Rejected(s, op) ==
  /\ UNCHANGED observing
  /\ connected[s] /\ task[s].op = "idle"
  /\ out' = Sent([NoOut EXCEPT !.reply = Fail(s, op)])
  /\ UNCHANGED <<rooms, room, hls, transports, producers, procs, timers,
                 files, consumers, peers, connected, joined, task>>

\* create-transport for a room that is not registered.
CreateTransportNotFound(s, roomId) ==
  /\ getRoom(cur, roomId) = 0
  /\ Rejected(s, "create-transport")

\* produce for a room that is not registered or a transport the room does not
\* hold.
ProduceNotFound(s, roomId, transportId) ==
  /\ getRoom(cur, roomId) # 0 =>
       transportId \notin room[getRoom(cur, roomId)].transports
  /\ Rejected(s, "produce")

\* connect-transport up to `await transport.connect(...)`.
ConnectTransport(s, roomId, transportId) ==
  /\ UNCHANGED observing
  /\ connected[s] /\ task[s].op = "idle"
  /\ getRoom(cur, roomId) # 0
  /\ transportId \in room[getRoom(cur, roomId)].transports
  /\ task' = [task EXCEPT ![s] =
               [Idle EXCEPT !.op = "connect-transport",
                            !.pc = "transport.connect",
                            !.roomId = roomId, !.room = getRoom(cur, roomId),
                            !.transportId = transportId]]
  /\ out' = NoOut
  /\ UNCHANGED <<rooms, room, hls, transports, producers, procs, timers,
                 files, consumers, peers, connected, joined>>

\* connect-transport written with optional chaining
\* (`getRoom(roomId)?.transports.get(transportId)`, `await transport?.connect`):
\* a missing room or transport is passed over and the callback gets success.
ConnectTransportSilent(s, roomId, transportId) ==
  /\ UNCHANGED observing
  /\ connected[s] /\ task[s].op = "idle"
  /\ getRoom(cur, roomId) # 0 =>
       transportId \notin room[getRoom(cur, roomId)].transports
  /\ out' = Sent([NoOut EXCEPT !.reply = Ok(s, "connect-transport", <<>>)])
  /\ UNCHANGED <<rooms, room, hls, transports, producers, procs, timers,
                 files, consumers, peers, connected, joined, task>>

ConnectTransportNotFound(s, roomId, transportId) ==
  /\ getRoom(cur, roomId) # 0 =>
       transportId \notin room[getRoom(cur, roomId)].transports
  /\ Rejected(s, "connect-transport")

\* transport.connect resolved or rejected; mediasoup rejects a second connect
\* of a transport.
ConnectTransportResume(s, ok) ==
  /\ UNCHANGED observing
  /\ task[s].op = "connect-transport"
  /\ ok => task[s].transportId \notin room[task[s].room].dtls
  /\ task' = [task EXCEPT ![s] = Idle]
  /\ IF ok
     THEN /\ room' = [room EXCEPT ![task[s].room].dtls =
                        @ \cup {task[s].transportId}]
          /\ out' = Sent([NoOut EXCEPT !.reply = Ok(s, "connect-transport", <<>>)])
     ELSE /\ out' = Sent([NoOut EXCEPT !.reply = Fail(s, "connect-transport")])
          /\ UNCHANGED room
  /\ UNCHANGED <<rooms, hls, transports, producers, procs, timers, files,
                 consumers, peers, connected, joined>>

\* The checks of MediasoupManager.consume before its await: the room, the
\* transport and the producer are found and router.canConsume is true (can).
consumeIgnoresCapabilities(st, roomId, transportId, producerId, can) ==
  /\ getRoom(st, roomId) # 0
  /\ transportId \in st.room[getRoom(st, roomId)].transports
  /\ producerId \in st.room[getRoom(st, roomId)].producers

consumeAccepts(st, roomId, transportId, producerId, can) ==
  /\ getRoom(st, roomId) # 0
  /\ transportId \in st.room[getRoom(st, roomId)].transports
  /\ producerId \in st.room[getRoom(st, roomId)].producers
  /\ can

\* consume up to `await transport.consume(...)`.
Consume(s, roomId, transportId, producerId, can) ==
  /\ UNCHANGED observing
  /\ connected[s] /\ task[s].op = "idle"
  /\ consumeAccepts(cur, roomId, transportId, producerId, can)
  /\ task' = [task EXCEPT ![s] =
               [Idle EXCEPT !.op = "consume", !.pc = "transport.consume",
                            !.roomId = roomId, !.room = getRoom(cur, roomId),
                            !.transportId = transportId,
                            !.producer = producerId, !.can = can]]
  /\ out' = NoOut
  /\ UNCHANGED <<rooms, room, hls, transports, producers, procs, timers,
                 files, consumers, peers, connected, joined>>

\* consume thrown out by one of the checks; the reply is recorded with the
\* request it answers.
ConsumeRejected(s, roomId, transportId, producerId, can) ==
  /\ UNCHANGED observing
  /\ connected[s] /\ task[s].op = "idle"
  /\ ~consumeAccepts(cur, roomId, transportId, producerId, can)
  /\ out' = Sent([NoOut EXCEPT !.reply =
                    [Fail(s, "consume") EXCEPT !.request =
                       [roomId |-> roomId, transportId |-> transportId,
                        producer |-> producerId, can |-> can]]])
  /\ UNCHANGED <<rooms, room, hls, transports, producers, procs, timers,
                 files, consumers, peers, connected, joined, task>>

\* transport.consume without `paused: true`: the consumer starts active.
NewConsumerActive(t) ==
  [room |-> t.room, transportId |-> t.transportId, producerId |-> t.producer,
   paused |-> FALSE, closed |-> FALSE]

\* The consumer that `transport.consume({ producerId, rtpCapabilities,
\* paused: true })` creates for request t.
NewConsumer(t) ==
  [room |-> t.room, transportId |-> t.transportId, producerId |-> t.producer,
   paused |-> TRUE, closed |-> FALSE]

\* transport.consume resolved or rejected; mediasoup rejects the request when
\* the producer has been closed meanwhile.  The consumer is created paused.
ConsumeResume(s, ok) ==
  /\ UNCHANGED observing
  /\ task[s].op = "consume"
  /\ ok => task[s].producer \in room[task[s].room].producers
  /\ task' = [task EXCEPT ![s] = Idle]
  /\ IF ok
     THEN LET c == Len(consumers) + 1 IN
          /\ consumers' = Append(consumers, NewConsumer(task[s]))
          /\ room' = [room EXCEPT ![task[s].room].consumers = @ \cup {c}]
          /\ out' = Sent([NoOut EXCEPT !.reply =
                            Ok(s, "consume",
                               [id |-> c, producerId |-> task[s].producer,
                                kind |-> task[s].producer[2]])])
     ELSE /\ out' = Sent([NoOut EXCEPT !.reply = Fail(s, "consume")])
          /\ UNCHANGED <<room, consumers>>
  /\ UNCHANGED <<rooms, hls, transports, producers, procs, timers, files,
                 peers, connected, joined>>

\* resume-consumer up to `await consumer.resume()`.
ResumeConsumer(s, roomId, consumerId) ==
  /\ UNCHANGED observing
  /\ connected[s] /\ task[s].op = "idle"
  /\ getRoom(cur, roomId) # 0
  /\ consumerId \in room[getRoom(cur, roomId)].consumers
  /\ task' = [task EXCEPT ![s] =
               [Idle EXCEPT !.op = "resume-consumer", !.pc = "consumer.resume",
                            !.roomId = roomId, !.room = getRoom(cur, roomId),
                            !.consumer = consumerId]]
  /\ out' = NoOut
  /\ UNCHANGED <<rooms, room, hls, transports, producers, procs, timers,
                 files, consumers, peers, connected, joined>>

ResumeConsumerNotFound(s, roomId, consumerId) ==
  /\ getRoom(cur, roomId) # 0 =>
       consumerId \notin room[getRoom(cur, roomId)].consumers
  /\ Rejected(s, "resume-consumer")

\* consumer.resume resolved or rejected; mediasoup rejects the request for a
\* consumer that is closed.
ResumeConsumerResume(s, ok) ==
  /\ UNCHANGED observing
  /\ task[s].op = "resume-consumer"
  /\ ok => ~consumers[task[s].consumer].closed
  /\ task' = [task EXCEPT ![s] = Idle]
  /\ IF ok
     THEN /\ consumers' = [consumers EXCEPT ![task[s].consumer].paused = FALSE]
          /\ out' = Sent([NoOut EXCEPT !.reply = Ok(s, "resume-consumer", <<>>)])
     ELSE /\ out' = Sent([NoOut EXCEPT !.reply = Fail(s, "resume-consumer")])
          /\ UNCHANGED consumers
  /\ UNCHANGED <<rooms, room, hls, transports, producers, procs, timers,
                 files, peers, connected, joined>>

\* The get-hls-url handler.
GetHlsUrl(s, roomId) ==
  /\ UNCHANGED observing
  /\ connected[s] /\ task[s].op = "idle"
  /\ out' = Sent([NoOut EXCEPT !.reply =
                    [to |-> s, op |-> "get-hls-url", roomId |-> roomId]
                      @@ getHlsUrl(cur, roomId)])
  /\ UNCHANGED <<rooms, room, hls, transports, producers, procs, timers,
                 files, consumers, peers, connected, joined, task>>

\* get-room-stats that looks the room up with a get-or-create: a room that is
\* not registered is allocated and registered before it is reported.
GetRoomStatsAllocating(s, roomId) ==
  /\ UNCHANGED observing
  /\ connected[s] /\ task[s].op = "idle"
  /\ LET st == IF getRoom(cur, roomId) = 0
               THEN createRoomResume(cur, roomId) ELSE cur IN
     /\ Commit(st)
     /\ out' = Sent([NoOut EXCEPT !.reply =
                       [Ok(s, "get-room-stats", getRoomStats(st, roomId))
                          EXCEPT !.request = [roomId |-> roomId]]])
  /\ UNCHANGED <<peers, connected, joined, task>>

\* The get-room-stats handler; the reply is recorded with the room id asked
\* for.
GetRoomStats(s, roomId) ==
  /\ UNCHANGED observing
  /\ connected[s] /\ task[s].op = "idle"
  /\ out' = Sent([NoOut EXCEPT !.reply =
                    [Ok(s, "get-room-stats", getRoomStats(cur, roomId))
                       EXCEPT !.request = [roomId |-> roomId]]])
  /\ UNCHANGED <<rooms, room, hls, transports, producers, procs, timers,
                 files, consumers, peers, connected, joined, task>>

\* The disconnect handler.
Disconnect(s) ==
  /\ UNCHANGED observing
  /\ connected[s]
  /\ connected' = [connected EXCEPT ![s] = FALSE]
  /\ joined' = [joined EXCEPT ![s] = {}]
  /\ IF peers[s] # ""
     THEN /\ Commit(removePeerFromRoom(cur, peers[s], s))
          /\ peers' = [peers EXCEPT ![s] = ""]
          /\ out' = Sent([NoOut EXCEPT !.emitted = {Emit(s, peers[s], "peer-left")}])
     ELSE /\ out' = NoOut
          /\ UNCHANGED <<rooms, room, hls, transports, producers, procs,
                         timers, files, consumers, peers>>
  /\ UNCHANGED task

\* ------------------------------------------------ subprocess and timers
\* The subprocess could not be spawned: its "error" event.
ProcError(p) ==
  /\ UNCHANGED observing
  /\ procs[p].state = "running"
  /\ ~procs[p].killed
  /\ Commit(stop([cur EXCEPT !.procs[p].state = "errored"], procs[p].hls))
  /\ out' = NoOut
  /\ UNCHANGED <<peers, connected, joined, task>>

\* The subprocess exits with no "close" handler registered: nothing but the
\* process changes.
ProcCloseUnnoticed(p) ==
  /\ UNCHANGED observing
  /\ procs[p].state \in {"running", "errored"}
  /\ procs' = [procs EXCEPT ![p].state = "closed"]
  /\ out' = NoOut
  /\ UNCHANGED <<rooms, room, hls, transports, producers, timers, files,
                 consumers, peers, connected, joined, task>>

\* The subprocess exited (on its own or on a signal): its "close" event.
ProcClose(p) ==
  /\ UNCHANGED observing
  /\ procs[p].state \in {"running", "errored"}
  /\ Commit(stop([cur EXCEPT !.procs[p].state = "closed"], procs[p].hls))
  /\ out' = NoOut
  /\ UNCHANGED <<peers, connected, joined, task>>

\* The running subprocess writes the playlist and its segments.
ProcWrite(p) ==
  /\ UNCHANGED observing
  /\ procs[p].state = "running"
  /\ files[room[procs[p].hls].id].dir
  /\ ~files[room[procs[p].hls].id].playlist
  /\ files' = [files EXCEPT ![room[procs[p].hls].id].playlist = TRUE]
  /\ out' = NoOut
  /\ UNCHANGED <<rooms, room, hls, transports, producers, procs, timers,
                 consumers, peers, connected, joined, task>>

\* The 5000 ms timer of stop fires.
KillTimer(i) ==
  /\ UNCHANGED observing
  /\ timers[i].kill > 0
  /\ timers' = [timers EXCEPT ![i].kill = @ - 1]
  /\ out' = NoOut
  /\ LET p == hls[i].ffmpegProcess IN
     procs' = IF p # 0 /\ ~procs[p].killed THEN Kill(procs, p, TRUE) ELSE procs
  /\ UNCHANGED <<rooms, room, hls, transports, producers, files, consumers, peers,
                 connected, joined, task>>

\* The 10000 ms timer of stop fires, after the 5000 ms timer of the same stop.
CleanupTimer(i) ==
  /\ UNCHANGED observing
  /\ timers[i].cleanup > timers[i].kill
  /\ Commit(cleanupFiles([cur EXCEPT !.timers[i].cleanup = @ - 1], i))
  /\ out' = NoOut
  /\ UNCHANGED <<peers, connected, joined, task>>

\* -------------------------------------------------------- specification
Started ==
  /\ rooms = [r \in RoomIds |-> 0]
  /\ room = <<>>
  /\ hls = <<>>
  /\ transports = [s \in Sockets |-> 0]
  /\ producers = [s \in Sockets |-> [k \in Kinds |-> 0]]
  /\ procs = <<>>
  /\ timers = <<>>
  /\ files = [r \in RoomIds |-> [dir |-> FALSE, sdp |-> <<>>, playlist |-> FALSE]]
  /\ peers = [s \in Sockets |-> ""]
  /\ connected = [s \in Sockets |-> TRUE]
  /\ task = [s \in Sockets |-> Idle]
  /\ consumers = <<>>
  /\ joined = [s \in Sockets |-> {}]
  /\ out = NoOut

\* The server after construction; what it sends is not observed.
Init == Started /\ observing = FALSE

\* The same server with its replies and broadcasts observed.
InitObserved == Started /\ observing = TRUE

\* Requests the limits L still allow to start: L bounds the requests suspended
\* at once and the objects ever created, counting those a suspended request
\* is about to create.
Pending(op, pc) ==
  Cardinality({s \in Sockets : task[s].op = op /\ task[s].pc = pc})

MayStart(L) == InFlight < L.inflight

MayStartMedia(L) ==
  /\ MayStart(L)
  /\ Cardinality({s \in Sockets : task[s].op \in {"create-transport", "produce"}})
       < L.media

MayCreateRoom(L) ==
  Len(room) + Pending("join-room", "createRouter") < L.rooms

MayCreateTransport(L) ==
  Cardinality(AllTransports) + Pending("create-transport", "createWebRtcTransport")
    < L.transports

MayProduce(L, s, k) ==
  /\ Cardinality(AllProducers) + Pending("produce", "transport.produce")
       < L.producers
  /\ producers[s][k] < L.perKind

\* The join-room requests of the sockets in S, every external call's outcome
\* in Oks.
Joins(S, Oks, L) ==
  \/ \E s \in S, r \in L.roomIds : JoinRoom(s, r)
  \/ \E s \in S, r \in L.roomIds :
       MayStart(L) /\ MayCreateRoom(L) /\ JoinRoomCreate(s, r)
  \/ \E s \in S, ok \in Oks : JoinRoomResume(s, ok)

\* The create-transport and produce requests of the sockets in S.
Media(S, Oks, L) ==
  \/ \E s \in S, r \in L.roomIds :
       MayStartMedia(L) /\ MayCreateTransport(L) /\ CreateTransport(s, r)
  \/ \E s \in S, ok \in Oks : CreateTransportResume(s, ok)
  \/ \E s \in S, r \in L.roomIds, t \in AllTransports, kd \in Kinds :
       MayStartMedia(L) /\ MayProduce(L, s, kd) /\ Produce(s, r, t, kd)
  \/ \E s \in S, ok \in Oks : ProduceCreated(s, ok)
  \/ \E s \in S, ok \in Oks : ProducePlainTransport(s, ok)
  \/ \E s \in S, ok \in Oks : ProduceConsume(s, ok)
  \/ \E s \in S, ok \in Oks, w \in Oks :
       ProduceResume(s, ok, w) /\ Len(procs') <= L.procs

Departures(S) == \E s \in S : Disconnect(s)

MayConsume(L) == Len(consumers) + Pending("consume", "transport.consume")
                   < L.consumers

\* The connect-transport, consume and resume-consumer requests of the sockets
\* in S, and their create-transport and produce requests that name a room or
\* a transport that is not there.
Signals(S, Oks, L) ==
  \/ \E s \in S, r \in L.roomIds : CreateTransportNotFound(s, r)
  \/ \E s \in S, r \in L.roomIds, t \in AllTransports :
       ProduceNotFound(s, r, t)
  \/ \E s \in S, r \in L.roomIds, t \in AllTransports :
       MayStart(L) /\ ConnectTransport(s, r, t)
  \/ \E s \in S, r \in L.roomIds, t \in AllTransports :
       ConnectTransportNotFound(s, r, t)
  \/ \E s \in S, ok \in Oks : ConnectTransportResume(s, ok)
  \/ \E s \in S, r \in L.roomIds, t \in AllTransports,
        p \in AllProducers, can \in BOOLEAN :
       MayStart(L) /\ MayConsume(L) /\ Consume(s, r, t, p, can)
  \/ \E s \in S, r \in L.roomIds, t \in AllTransports,
        p \in AllProducers, can \in BOOLEAN :
       ConsumeRejected(s, r, t, p, can)
  \/ \E s \in S, ok \in Oks : ConsumeResume(s, ok)
  \/ \E s \in S, r \in L.roomIds, c \in 1..L.consumers :
       MayStart(L) /\ ResumeConsumer(s, r, c)
  \/ \E s \in S, r \in L.roomIds, c \in 1..L.consumers :
       ResumeConsumerNotFound(s, r, c)
  \/ \E s \in S, ok \in Oks : ResumeConsumerResume(s, ok)

\* The get-hls-url and get-room-stats requests of the sockets in S.
Queries(S, L) ==
  \/ \E s \in S, r \in L.roomIds : GetHlsUrl(s, r)
  \/ \E s \in S, r \in L.roomIds : GetRoomStats(s, r)

Subprocess ==
  \/ \E p \in 1..Len(procs) : ProcError(p)
  \/ \E p \in 1..Len(procs) : ProcClose(p)
  \/ \E p \in 1..Len(procs) : ProcWrite(p)

Timers ==
  \/ \E i \in 1..Len(room) : KillTimer(i)
  \/ \E i \in 1..Len(room) : CleanupTimer(i)

Limits ==
  [inflight |-> MaxInFlight, media |-> MaxInFlight, rooms |-> MaxRooms,
   transports |-> MaxTransports, producers |-> MaxProducers,
   perKind |-> MaxProducers, procs |-> MaxProcs, roomIds |-> {"r1"}]

Next ==
  \/ Joins(Streamers, BOOLEAN, Limits)
  \/ Media(Streamers, BOOLEAN, Limits)
  \/ Departures(Streamers)
  \/ Subprocess
  \/ Timers

Spec == Init /\ [][Next]_vars

\* The streaming connections that have joined a room: the clients that send
\* create-transport and produce only after their join-room was answered.
Joined == {s \in Streamers : peers[s] # ""}

\* One request at a time and no failing external call, up to a second start
\* of the pipeline; clients join before they stream.
RestartLimits ==
  [inflight |-> RestartInFlight, media |-> RestartInFlight,
   rooms |-> RestartRooms,
   transports |-> RestartTransports, producers |-> RestartProducers,
   perKind |-> RestartProducers, procs |-> RestartProcs,
   roomIds |-> {"r1"}]

NextRestart ==
  \/ Joins(Streamers, {TRUE}, RestartLimits)
  \/ Media(Joined, {TRUE}, RestartLimits)
  \/ Departures(Streamers)
  \/ Subprocess
  \/ Timers

SpecRestart == Init /\ [][NextRestart]_vars

\* Three connections join, two of them stream after joining; no connection
\* leaves and no subprocess exits.
RaceLimits ==
  [inflight |-> RaceInFlight, media |-> RaceMedia, rooms |-> RaceRooms,
   transports |-> RaceTransports, producers |-> RaceProducers,
   perKind |-> RacePerKind, procs |-> RaceProcs, roomIds |-> {"r1"}]

NextRace ==
  \/ Joins(Sockets, {TRUE}, RaceLimits)
  \/ Media(Joined, {TRUE}, RaceLimits)

SpecRace == Init /\ [][NextRace]_vars

\* Two connections and two room ids, one request at a time, no failing
\* external call; clients join before they stream.
RoomsLimits ==
  [inflight |-> RoomsInFlight, media |-> RoomsInFlight, rooms |-> RoomsRooms,
   transports |-> RoomsTransports, producers |-> RoomsProducers,
   perKind |-> RoomsProducers, procs |-> 0, roomIds |-> RoomIds]

NextRooms ==
  \/ Joins(Streamers, {TRUE}, RoomsLimits)
  \/ Media(Joined, {TRUE}, RoomsLimits)
  \/ Departures(Streamers)

SpecRooms == Init /\ [][NextRooms]_vars

\* Two connections negotiate transports, producers and consumers, one request
\* at a time, every external call succeeding or failing; what the server
\* sends is observed.
ConsumeLimits ==
  [inflight |-> ConsumeInFlight, media |-> ConsumeInFlight,
   rooms |-> ConsumeRooms, transports |-> ConsumeTransports,
   producers |-> ConsumeProducers, perKind |-> ConsumeProducers,
   procs |-> 0, consumers |-> ConsumeConsumers, roomIds |-> {"r1"}]

NextConsume ==
  \/ Joins(Streamers, BOOLEAN, ConsumeLimits)
  \/ Media(Streamers, BOOLEAN, ConsumeLimits)
  \/ Signals(Streamers, BOOLEAN, ConsumeLimits)
  \/ Departures(Streamers)

SpecConsume == InitObserved /\ [][NextConsume]_vars

\* The streaming clients of SpecRestart and a viewer c that polls get-hls-url
\* and get-room-stats for a room that is created and one that never is.
ViewerLimits == [RestartLimits EXCEPT !.roomIds = RoomIds]

NextViewer ==
  \/ NextRestart
  \/ Queries({"c"}, ViewerLimits)

SpecViewer == InitObserved /\ [][NextViewer]_vars

\* SpecRooms with the replies and broadcasts observed.
SpecRoomsObserved == InitObserved /\ [][NextRooms]_vars

\* The streaming connections that have joined a room or have disconnected:
\* a request of a disconnected connection was sent while it was joined.
Members == {s \in Streamers : peers[s] # "" \/ ~connected[s]}

\* The clients of SpecRooms, with the requests a client sent before it
\* disconnected completing after the disconnect.
NextLeave ==
  \/ Joins(Streamers, {TRUE}, RoomsLimits)
  \/ Media(Members, {TRUE}, RoomsLimits)
  \/ Departures(Streamers)

SpecLeave == Init /\ [][NextLeave]_vars

\* Joined clients negotiate transports, producers and consumers up to the
\* start of the pipeline, no external call failing, while a viewer c polls
\* get-hls-url and get-room-stats.
StatsLimits ==
  [inflight |-> RestartInFlight, media |-> RestartInFlight,
   rooms |-> RestartRooms, transports |-> RestartTransports,
   producers |-> MaxProducers, perKind |-> RoomsProducers,
   procs |-> MaxProcs, consumers |-> ConsumeConsumers, roomIds |-> {"r1"}]

NextStats ==
  \/ Joins(Streamers, {TRUE}, StatsLimits)
  \/ Media(Joined, {TRUE}, StatsLimits)
  \/ Signals(Joined, {TRUE}, StatsLimits)
  \/ Departures(Streamers)
  \/ Queries({"c"}, StatsLimits)

SpecStats == InitObserved /\ [][NextStats]_vars

\* Two connections stream into one room with two requests in flight at once,
\* no external call failing, and leave; a request sent before a disconnect
\* may complete after it; what the server sends is observed.
AnnounceLimits ==
  [inflight |-> RaceInFlight, media |-> RaceInFlight, rooms |-> RestartRooms,
   transports |-> RestartTransports, producers |-> ConsumeProducers,
   perKind |-> RoomsProducers, procs |-> 0, roomIds |-> {"r1"}]

NextAnnounce ==
  \/ Joins(Streamers, {TRUE}, AnnounceLimits)
  \/ Media(Members, {TRUE}, AnnounceLimits)
  \/ Departures(Streamers)

SpecAnnounce == InitObserved /\ [][NextAnnounce]_vars

\* Two connections join one room and stream into it with their produce
\* requests interleaving at every await, no external call failing; nobody
\* leaves and no subprocess exits.
ProduceLimits ==
  [inflight |-> RaceInFlight, media |-> RaceInFlight, rooms |-> RestartRooms,
   transports |-> RestartTransports, producers |-> MaxProducers,
   perKind |-> RoomsProducers, procs |-> RaceProcs, roomIds |-> {"r1"}]

NextProduce ==
  \/ Joins(Streamers, {TRUE}, ProduceLimits)
  \/ Media(Joined, {TRUE}, ProduceLimits)

SpecProduce == Init /\ [][NextProduce]_vars

\* Joined clients stream into one room, one request at a time; every call
\* of addProducer and the SDP write may fail and the subprocess may exit or
\* report an error; what the server sends is observed.
ErrorsLimits ==
  [inflight |-> RestartInFlight, media |-> RestartInFlight,
   rooms |-> RestartRooms, transports |-> RestartTransports,
   producers |-> RestartProducers, perKind |-> RacePerKind,
   procs |-> MaxProcs, roomIds |-> {"r1"}]

NextErrors ==
  \/ Joins(Streamers, {TRUE}, ErrorsLimits)
  \/ Media(Joined, BOOLEAN, ErrorsLimits)
  \/ Subprocess

SpecErrors == InitObserved /\ [][NextErrors]_vars

\* Two streaming connections and a viewer c that only joins: one request at
\* a time, no external call failing, and any of the three may leave.
DepartLimits ==
  [inflight |-> RestartInFlight, media |-> RestartInFlight,
   rooms |-> RestartRooms, transports |-> RestartTransports,
   producers |-> MaxProducers, perKind |-> RoomsProducers,
   procs |-> MaxProcs, roomIds |-> {"r1"}]

NextDepart ==
  \/ Joins(Sockets, {TRUE}, DepartLimits)
  \/ Media(Joined, {TRUE}, DepartLimits)
  \/ Departures(Sockets)

SpecDepart == Init /\ [][NextDepart]_vars

\* Two connections stream into one room and a viewer c joins it, one request
\* at a time, no external call failing; only c leaves, so that a stop leaves
\* both streamers in the room; subprocesses exit and the timers of stop fire.
AgainLimits ==
  [inflight |-> RestartInFlight, media |-> RestartInFlight,
   rooms |-> RestartRooms, transports |-> RestartTransports,
   producers |-> RestartProducers, perKind |-> RacePerKind,
   procs |-> RestartProcs, roomIds |-> {"r1"}]

NextAgain ==
  \/ Joins(Sockets, {TRUE}, AgainLimits)
  \/ Media(Joined, {TRUE}, AgainLimits)
  \/ Departures({"c"})
  \/ Subprocess
  \/ Timers

SpecAgain == Init /\ [][NextAgain]_vars

\* A produce request whose router was closed goes on only from
\* `await consumer.resume()`: that call was issued before the close and
\* resolves; a call issued on a closed router is not taken to resolve.
ResolvesAfterClose ==
  \A s \in Sockets :
    (/\ task[s].op = "produce" /\ task'[s] # task[s]
     /\ room[task[s].room].routerClosed)
      => task[s].pc = "consumer.resume"

\* Two connections stream into one room and leave, one request at a time,
\* no external call failing; a request sent before a disconnect may complete
\* after it, and after the room was destroyed.
DestroyLimits ==
  [inflight |-> RestartInFlight, media |-> RestartInFlight,
   rooms |-> RestartRooms, transports |-> RestartTransports,
   producers |-> MaxProducers, perKind |-> RoomsProducers,
   procs |-> MaxProcs, roomIds |-> {"r1"}]

NextDestroy ==
  \/ Joins(Streamers, {TRUE}, DestroyLimits)
  \/ Media(Members, {TRUE}, DestroyLimits) /\ ResolvesAfterClose
  \/ Departures(Streamers)

SpecDestroy == Init /\ [][NextDestroy]_vars

\* Two connections and two room ids: joined clients negotiate transports,
\* producers and consumers and leave, one request at a time, no external call
\* failing.
ConfinedLimits ==
  [inflight |-> RoomsInFlight, media |-> RoomsInFlight, rooms |-> RoomsRooms,
   transports |-> RoomsTransports, producers |-> RoomsProducers,
   perKind |-> RoomsProducers, procs |-> 0,
   consumers |-> ConsumeConsumers, roomIds |-> RoomIds]

NextConfined ==
  \/ Joins(Streamers, {TRUE}, ConfinedLimits)
  \/ Media(Joined, {TRUE}, ConfinedLimits)
  \/ Signals(Joined, {TRUE}, ConfinedLimits)
  \/ Departures(Streamers)

SpecConfined == Init /\ [][NextConfined]_vars

\* ---------------------------------------------------------------- claims
Insts == 1..Len(room)

Active(i) == hls[i].isTranscoding

\* A peer's Media Source Set in Room object i is complete: the room's producer
\* index holds a video and an audio producer of that peer.
Complete(rm, s) ==
  /\ \E p \in rm.producers : p[1] = s /\ p[2] = "video"
  /\ \E p \in rm.producers : p[1] = s /\ p[2] = "audio"

\* The current members of Room object rm with a complete Media Source Set.
CompletePeersOf(rm) == {s \in rm.peers : Complete(rm, s)}

CompletePeers(i) == CompletePeersOf(room[i])

Alive(p) == procs[p].state = "running"

\* The disconnect handler of socket s runs in this step.
Disconnects(s) == connected[s] /\ ~connected'[s]

\* C1: for every room id at most one Rebroadcast Session (HLSTranscoder) is
\* Active at any instant.
C1_AtMostOneActiveSession ==
  \A i, j \in Insts :
    Active(i) /\ Active(j) /\ room[i].id = room[j].id => i = j

\* C2: at most one transcoding subprocess is alive per room, a subprocess that
\* was sent SIGTERM and has not exited counting as alive.
C2_AtMostOneSubprocessAlive ==
  \A p, q \in 1..Len(procs) :
    Alive(p) /\ Alive(q) /\ room[procs[p].hls].id = room[procs[q].hls].id
      => p = q

\* C3: while fewer than 2 current peers of a registered room have a complete
\* Media Source Set, the pipeline is not Active and get-hls-url fails.
C3_NotActiveBelowMinimum ==
  \A r \in RoomIds :
    rooms[r] # 0 /\ Cardinality(CompletePeers(rooms[r])) < MinStreamers
      => ~getHlsUrl(cur, r).success

\* C4: a Rebroadcast Session is Active only while at least 2 peers that are
\* still members of its room have a complete Media Source Set.
C4_ActiveOnlyWithMinimum ==
  \A i \in Insts :
    Active(i) => Cardinality(CompletePeers(i)) >= MinStreamers

\* C5: a disconnect that removes a peer from a room whose pipeline is Active
\* and takes the number of members with a complete Media Source Set from at
\* least 2 to below 2 leaves the pipeline not Active, and get-room-stats
\* reports hasHLS = false for the room afterwards.
C5_DepartureStopsPipeline ==
  [][\A s \in Sockets :
       LET r == peers[s]
           i == rooms[peers[s]] IN
       (/\ Disconnects(s)
        /\ r # ""
        /\ i # 0
        /\ Active(i)
        /\ Cardinality(CompletePeersOf(room[i])) >= MinStreamers
        /\ Cardinality(CompletePeersOf(room'[i])) < MinStreamers)
       => /\ ~hls'[i].isTranscoding
          /\ getRoomStats(cur', r) =
               [roomId |-> r,
                peers |-> Cardinality(room[i].peers) - 1,
                transports |-> Cardinality(room[i].transports),
                producers |-> Cardinality(room'[i].producers),
                consumers |-> Cardinality(room[i].consumers),
                hasHLS |-> FALSE]]_vars

\* C5 witness: a member with a complete set has left a room that stays
\* registered; the pipeline was stopped while its subprocess was running, and
\* get-room-stats reports hasHLS = false.
C5_Witness ==
  \E r \in RoomIds, s \in Sockets, p \in 1..Len(procs) :
    /\ rooms[r] # 0
    /\ procs[p].hls = rooms[r]
    /\ procs[p].state = "running" /\ procs[p].sigterm
    /\ ~connected[s]
    /\ s \notin room[rooms[r]].peers
    /\ StreamerIndex(hls[rooms[r]], s) # 0
    /\ IsReady(hls[rooms[r]].streamers[StreamerIndex(hls[rooms[r]], s)])
    /\ Cardinality(CompletePeers(rooms[r])) = 1
    /\ ~getRoomStats(cur, r).hasHLS

\* C6: once a room is destroyed, its pipeline stopped and every timer fired,
\* no output directory or artifact of the room remains.
C6_NoArtifactsRemain ==
  \A r \in RoomIds :
    (/\ rooms[r] = 0
     /\ \A s \in Sockets : task[s].op = "idle"
     /\ \A i \in Insts :
          room[i].id = r =>
            ~Active(i) /\ timers[i].kill = 0 /\ timers[i].cleanup = 0
     /\ \A p \in 1..Len(procs) : ~Alive(p))
    => files[r] = [dir |-> FALSE, sdp |-> <<>>, playlist |-> FALSE]

\* C7: while a room id is registered, createRoom returns the registered Room:
\* the id is never bound to another Room object (no second router or
\* pipeline is allocated for it).
C7_CreateRoomIdempotent ==
  [][\A r \in RoomIds :
       rooms[r] # 0 /\ rooms'[r] # 0 => rooms'[r] = rooms[r]]_vars

\* C8: after the disconnect handler removed a peer from its room, no transport
\* or producer of that peer is left in the indexes of the room, unless the
\* room was destroyed and its router closed.
C8_NothingOutlivesPeer ==
  [][\A s \in Sockets :
       (Disconnects(s) /\ peers[s] # "" /\ rooms[peers[s]] # 0)
       => LET i == rooms[peers[s]] IN
          \/ room'[i].routerClosed
          \/ /\ \A t \in room'[i].transports : t[1] # s
             /\ \A p \in room'[i].producers : p[1] # s]_vars

\* C9: after the disconnect handler removed a peer from a room that stays
\* registered, the pipeline's streamers no longer contain that peer.
C9_PipelineForgetsPeer ==
  [][\A s \in Sockets :
       LET r == peers[s] IN
       (Disconnects(s) /\ r # "" /\ rooms[r] # 0 /\ rooms'[r] = rooms[r])
       => StreamerIndex(hls'[rooms[r]], s) = 0]_vars

\* C10: a Room leaves the registry exactly in the step that empties its peer
\* set, with its pipeline stopped and its router closed.
C10_RemovedExactlyWhenEmpty ==
  [][\A r \in RoomIds :
       LET i == rooms[r] IN
       i # 0 =>
         /\ rooms'[r] # i =>
              /\ room[i].peers # {} /\ room'[i].peers = {}
              /\ room'[i].routerClosed /\ ~hls'[i].isTranscoding
         /\ (room[i].peers # {} /\ room'[i].peers = {}) => rooms'[r] = 0]_vars

\* The registered rooms whose peer set holds socket s.
RoomsOf(s) == {r \in RoomIds : rooms[r] # 0 /\ s \in room[rooms[r]].peers}

\* C11: no step puts a connection id into the peer sets of two registered
\* rooms, and the disconnect of a connection with no request in flight leaves
\* its id in no registered room's peer set.
C11_MemberOfOneRoom ==
  [][\A s \in Sockets :
       /\ Cardinality(RoomsOf(s)') <= 1
       /\ (Disconnects(s) /\ task[s].op = "idle") => RoomsOf(s)' = {}]_vars

MediaOps == {"create-transport", "connect-transport", "produce", "consume"}

\* C12: a step of a create-transport, connect-transport, produce or consume
\* request of a connection that has not completed join-room changes no room
\* and no pipeline.
C12_JoinPrecedesMedia ==
  [][\A s \in Sockets :
       (/\ connected[s] /\ peers[s] = ""
        /\ task[s].op \in MediaOps
        /\ task'[s] # task[s])
       => room' = room /\ hls' = hls]_vars

\* C13: a step of a create-transport, connect-transport, produce or consume
\* request of a connection that has joined a room changes no room whose peer
\* set does not hold the connection.
C13_OwnRoomOnly ==
  [][\A s \in Sockets :
       (/\ connected[s] /\ peers[s] # ""
        /\ task[s].op \in MediaOps
        /\ task'[s] # task[s]
        /\ s \notin room[task[s].room].peers)
       => room' = room /\ hls' = hls]_vars

EntityOps == {"create-transport", "connect-transport", "produce", "consume",
              "resume-consumer"}

\* The room, transport, producer and consumer that request t names are in the
\* registry and in the room's indexes.
NamedExist(t) ==
  LET i == rooms[t.roomId] IN
  /\ i # 0
  /\ t.op \in {"connect-transport", "produce", "consume"}
       => t.transportId \in room[i].transports
  /\ t.op = "consume" => t.producer \in room[i].producers
  /\ t.op = "resume-consumer" => t.consumer \in room[i].consumers

\* The last step answered a request op of socket s.
Replied(s) == out.reply # <<>> /\ out.reply.to = s /\ out.reply.op \in EntityOps

ConsumeReplied(s) ==
  out.reply # <<>> /\ out.reply.to = s /\ out.reply.op = "consume"

\* The room, the transport and the producer of request t are there and the
\* caller's capabilities are compatible with the producer.
Consumable(t) ==
  /\ rooms[t.roomId] # 0
  /\ t.transportId \in room[rooms[t.roomId]].transports
  /\ t.producer \in room[rooms[t.roomId]].producers
  /\ t.can

\* consume succeeds only for a request that found its producer in the room
\* with compatible capabilities, and whose producer is still in the room when
\* transport.consume completes; the success carries the new consumer's id and
\* the producer's id and kind.
ConsumeOnlyIf ==
  \A s \in Sockets :
    /\ (task[s].op = "idle" /\ task'[s].op = "consume")
         => Consumable(task'[s])
    /\ (ConsumeReplied(s)' /\ out'.reply.success)
         => /\ task[s].op = "consume" /\ task[s].can
            /\ task[s].producer \in room[task[s].room].producers
            /\ out'.reply.value.id \in room'[task[s].room].consumers
            /\ out'.reply.value.producerId = task[s].producer
            /\ out'.reply.value.kind = task[s].producer[2]

\* The checks of consume refuse only a request whose room, transport or
\* producer is missing or whose capabilities are incompatible.
ConsumeRefusedOnlyIf ==
  \A s \in Sockets :
    (ConsumeReplied(s)' /\ ~out'.reply.success /\ task[s].op = "idle")
      => ~Consumable(out'.reply.request)

C16_NoPartialConsumer ==
  [][/\ \A s \in Sockets :
          (ConsumeReplied(s)' /\ ~out'.reply.success)
            => room' = room /\ consumers' = consumers
     /\ \A i \in 1..Len(room) :
          room'[i].consumers # room[i].consumers
            => /\ out'.reply # <<>> /\ out'.reply.op = "consume"
               /\ out'.reply.success
               /\ room'[i].consumers
                    = room[i].consumers \cup {out'.reply.value.id}
               /\ out'.reply.value.id = Len(consumers) + 1
     /\ \A c \in 1..Len(consumers') :
          IF c > Len(consumers)
          THEN consumers'[c].paused
          ELSE (consumers[c].paused /\ ~consumers'[c].paused)
                 => \E s \in Sockets :
                      /\ task[s].op = "resume-consumer"
                      /\ task[s].consumer = c
                      /\ out'.reply = Ok(s, "resume-consumer", <<>>)]_vars

\* C16 witness: a consumer was created and made active by resume-consumer,
\* and a consume has just been refused with that consumer still the only one
\* in the room's index.
C16_Witness ==
  \E s \in Sockets :
    /\ ConsumeReplied(s) /\ ~out.reply.success
    /\ rooms["r1"] # 0
    /\ room[rooms["r1"]].consumers = {1}
    /\ Len(consumers) = 1
    /\ ~consumers[1].paused

\* Socket s has just been answered on its produce request.
ProduceReplied(s) ==
  out.reply # <<>> /\ out.reply.to = s /\ out.reply.op = "produce"

\* Transcoder h holds producer p as the video or audio source of peer s.
Registered(h, s, p) ==
  \E n \in 1..Len(h.streamers) :
    /\ h.streamers[n].peerId = s
    /\ IF p[2] = "video" THEN h.streamers[n].video = p
                          ELSE h.streamers[n].audio = p

\* C17: a produce answered with success has its producer in the room, has it
\* registered with the room's HLSTranscoder under the calling peer, and sends
\* exactly one new-producer event, to the other connected members of the room
\* and not to the sender; a produce answered with a failure changes no room
\* and no transcoder, creates no producer and sends no event.
C17_ProduceRegistersAndBroadcasts ==
  [][\A s \in Sockets :
       ProduceReplied(s)' =>
         IF out'.reply.success
         THEN /\ task[s].op = "produce"
              /\ out'.reply.value \in room'[task[s].room].producers
              /\ Registered(hls'[task[s].room], s, out'.reply.value)
              /\ \E e \in out'.emitted :
                   /\ out'.emitted = {e}
                   /\ e.event = "new-producer"
                   /\ e.producerId = out'.reply.value
                   /\ e.peerId = s
                   /\ s \notin e.to
                   /\ e.to = {x \in room'[task[s].room].peers \ {s} :
                                connected[x]}
         ELSE /\ room' = room /\ hls' = hls /\ producers' = producers
              /\ out'.emitted = {}]_vars

\* Socket s has just been answered on its get-hls-url request.
HlsUrlReplied(s) ==
  out.reply # <<>> /\ out.reply.to = s /\ out.reply.op = "get-hls-url"

\* C18: get-hls-url is answered with success exactly when the room is
\* registered and its HLSTranscoder is transcoding at the request; the success
\* carries the path /hls/<roomId>/playlist.m3u8, every other answer is the
\* failure "HLS stream not available"; the request changes nothing, so it can
\* be sent again and succeeds once the transcoder is transcoding.
C18_StreamUrlIffActive ==
  [][\A s \in Sockets :
       HlsUrlReplied(s)' =>
         /\ out'.reply.success
              <=> /\ rooms[out'.reply.roomId] # 0
                  /\ Active(rooms[out'.reply.roomId])
         /\ IF out'.reply.success
            THEN out'.reply.hlsUrl
                   = <<"hls", out'.reply.roomId, "playlist.m3u8">>
            ELSE out'.reply.error = "HLS stream not available"
         /\ UNCHANGED <<rooms, room, hls, procs, files, connected, task>>
         /\ connected[s] /\ task[s].op = "idle"]_vars

\* C18 witness: the viewer has just been given the playlist path of r1, whose
\* transcoder is transcoding.
C18_Witness ==
  /\ HlsUrlReplied("c") /\ out.reply.success
  /\ out.reply.hlsUrl = <<"hls", "r1", "playlist.m3u8">>
  /\ rooms["r1"] # 0 /\ Active(rooms["r1"])

\* Connection s has joined r1, has created a transport, has produced video
\* and audio, and has no request in flight.
Streaming(s) ==
  /\ connected[s] /\ peers[s] = "r1" /\ task[s].op = "idle"
  /\ transports[s] >= 1
  /\ \A kd \in Kinds : producers[s][kd] >= 1

\* C19: once a and b have each joined r1, created a transport and produced
\* video and audio, every request answered with success, and nobody else has
\* joined, the registered room's transcoder is transcoding, get-hls-url for r1
\* is a success with a path, and get-room-stats reports two peers and
\* hasHLS = true.
C19_RoundTrip ==
  (/\ \A s \in Streamers : Streaming(s)
   /\ \A s \in Sockets \ Streamers : peers[s] = "" /\ task[s].op = "idle")
    => /\ rooms["r1"] # 0
       /\ Active(rooms["r1"])
       /\ getHlsUrl(cur, "r1").success
       /\ getHlsUrl(cur, "r1").hlsUrl # <<>>
       /\ getRoomStats(cur, "r1").peers = 2
       /\ getRoomStats(cur, "r1").hasHLS

\* C20: a step that finds or leaves connection s disconnected with its
\* join-room still in flight, s having completed no join, adds s to no room's
\* peer set and emits no peer-joined or peer-left event for s.
C20_DisconnectBeforeJoin ==
  [][\A s \in Sockets :
       (~connected'[s] /\ task[s].op = "join-room" /\ peers[s] = "")
         => /\ \A i \in 1..Len(room') :
                 s \in room'[i].peers
                   => i <= Len(room) /\ s \in room[i].peers
            /\ \A e \in out'.emitted : e.peerId # s]_vars

\* C21: a step of a create-transport, produce or consume request whose
\* connection has disconnected, taken while the room the request captured is
\* still the registered one, leaves every room, every transcoder and every
\* consumer as it was.
C21_DisconnectIsTerminal ==
  [][\A s \in Sockets :
       (/\ ~connected[s]
        /\ task[s].op \in {"create-transport", "produce", "consume"}
        /\ task'[s] # task[s]
        /\ rooms[task[s].roomId] = task[s].room)
         => room' = room /\ hls' = hls /\ consumers' = consumers]_vars

\* Socket s has just been answered on its get-room-stats request.
StatsReplied(s) ==
  out.reply # <<>> /\ out.reply.to = s /\ out.reply.op = "get-room-stats"

\* C22: get-room-stats for any room id changes neither the registry, nor any
\* room, transcoder, consumer, subprocess, timer or file; it is answered with
\* success; for a registered room the answer holds the sizes of the peer set
\* and of the transport, producer and consumer indexes and the transcoder's
\* isTranscoding flag as they are at the request, and for any other id null.
C22_StatsReadOnly ==
  [][\A s \in Sockets :
       StatsReplied(s)' =>
         /\ UNCHANGED <<rooms, room, hls, transports, producers, procs,
                        timers, files, consumers, peers, connected, joined,
                        task>>
         /\ out'.reply.success
         /\ LET r == out'.reply.request.roomId IN
            IF rooms[r] = 0
            THEN out'.reply.value = [null |-> TRUE]
            ELSE out'.reply.value =
                   [roomId |-> r,
                    peers |-> Cardinality(room[rooms[r]].peers),
                    transports |-> Cardinality(room[rooms[r]].transports),
                    producers |-> Cardinality(room[rooms[r]].producers),
                    consumers |-> Cardinality(room[rooms[r]].consumers),
                    hasHLS |-> Active(rooms[r])]]_vars

\* C22 witness: the viewer has just been given the stats of r1 while the room
\* holds two peers, a transport, four producers and a consumer and its
\* transcoder is transcoding.
C22_Witness ==
  /\ StatsReplied("c")
  /\ rooms["r1"] # 0
  /\ out.reply.value = [roomId |-> "r1", peers |-> 2, transports |-> 1,
                        producers |-> 4, consumers |-> 1, hasHLS |-> TRUE]
  /\ Active(rooms["r1"])

\* Socket s is the connection whose handler runs in this step.
Acting(s) ==
  \/ task'[s] # task[s]
  \/ connected'[s] # connected[s]
  \/ peers'[s] # peers[s]
  \/ \E i \in 1..Len(room) : s \in room'[i].peers /\ s \notin room[i].peers

\* The room id the handler of s that runs in this step passes to the manager.
Target(s) ==
  IF Disconnects(s) THEN peers[s]
  ELSE IF task[s].op # "idle" THEN task[s].roomId
  ELSE IF task'[s].op # "idle" THEN task'[s].roomId
  ELSE peers'[s]

\* The step leaves the registry entry, the Room objects, the transcoders,
\* the timers, the consumers and the files of room id r as they were.
Untouched(r) ==
  /\ rooms'[r] = rooms[r]
  /\ files'[r] = files[r]
  /\ \A i \in 1..Len(room') :
       room'[i].id = r
         => /\ i <= Len(room)
            /\ room'[i] = room[i] /\ hls'[i] = hls[i]
            /\ timers'[i] = timers[i]
  /\ \A c \in 1..Len(consumers') :
       room'[consumers'[c].room].id = r
         => c <= Len(consumers) /\ consumers'[c] = consumers[c]

\* C23: every step of a join-room, create-transport, connect-transport,
\* produce, consume, resume-consumer or disconnect handler leaves the
\* registry entry, the peer set, the transport, producer and consumer
\* indexes and the transcoder of every room other than the one it names
\* unchanged.
C23_ConfinedToTargetRoom ==
  [][\E s \in Sockets :
       /\ Acting(s)
       /\ \A r \in RoomIds : r # Target(s) => Untouched(r)]_vars

\* C23 witness: both rooms are registered and have a member, and r1 holds a
\* transport, a producer and a consumer.
C23_Witness ==
  /\ rooms["r1"] # 0 /\ rooms["r2"] # 0
  /\ room[rooms["r2"]].peers # {}
  /\ room[rooms["r1"]].peers # {}
  /\ room[rooms["r1"]].transports # {}
  /\ room[rooms["r1"]].producers # {}
  /\ room[rooms["r1"]].consumers # {}

\* The producers of kind kd in Room object rm that were created on requests
\* of peer s (appData.peerId = s).
ProducersOf(rm, s, kd) == {p \in rm.producers : p[1] = s /\ p[2] = kd}

\* C24: in every registered room the producer index holds at most one
\* producer per peer and kind, and every video or audio source in the
\* transcoder's streamer table is a producer that is in the index.
C24_OneProducerPerKind ==
  \A r \in RoomIds :
    rooms[r] # 0 =>
      /\ \A s \in Sockets, kd \in Kinds :
           Cardinality(ProducersOf(room[rooms[r]], s, kd)) <= 1
      /\ \A n \in 1..Len(hls[rooms[r]].streamers) :
           /\ hls[rooms[r]].streamers[n].video
                \in room[rooms[r]].producers \cup {NoId}
           /\ hls[rooms[r]].streamers[n].audio
                \in room[rooms[r]].producers \cup {NoId}

\* The peer-left event for s that the remaining connected members of room r
\* receive.
PeerLeft(s, r) ==
  [event |-> "peer-left", peerId |-> s, roomId |-> r,
   to |-> {x \in room[rooms[r]].peers \ {s} : connected[x]},
   producerId |-> NoId, kind |-> ""]

\* C25: the disconnect of a connection with no request in flight takes its id
\* out of the peer set of every registered room that holds it and emits, for
\* each such room, exactly one peer-left event to the room's remaining
\* connected members; the disconnect of a connection that is in no room emits
\* nothing.
C25_DisconnectBroadcastsPeerLeft ==
  [][\A s \in Sockets :
       (Disconnects(s) /\ task[s].op = "idle")
         => /\ \A r \in RoomsOf(s) :
                 rooms'[r] # 0 => s \notin room'[rooms'[r]].peers
            /\ out'.emitted = {PeerLeft(s, r) : r \in RoomsOf(s)}]_vars

\* Socket s's produce runs its last step, from `await consumer.resume()` to
\* the return of addProducer, which calls checkAndStartTranscoding.
ChecksStart(s) ==
  /\ task[s].op = "produce" /\ task[s].pc = "consumer.resume"
  /\ task'[s].op = "idle"

\* C26: while a transcoder is transcoding, checkAndStartTranscoding and start
\* return the state they were given, whether or not the SDP file could be
\* written; and the step of a produce that calls checkAndStartTranscoding on
\* a transcoding transcoder spawns no subprocess, leaves the files and the
\* timers as they were and leaves isTranscoding and ffmpegProcess unchanged.
C26_StartWhileActiveIsNoOp ==
  /\ [](\A i \in Insts :
          (Active(i) /\ Len(readyStreamers(hls[i])) >= MinStreamers)
            => \A w \in BOOLEAN :
                 /\ checkAndStartTranscoding(cur, i, w) = cur
                 /\ start(cur, i, SubSeq(readyStreamers(hls[i]), 1, 2), w)
                      = cur)
  /\ [][\A s \in Sockets :
          (ChecksStart(s) /\ Active(task[s].room))
            => /\ procs' = procs /\ files' = files /\ timers' = timers
               /\ hls'[task[s].room] = hls[task[s].room]]_vars

\* C26 witness: r1's transcoder is transcoding with the one subprocess that
\* was ever spawned, on an SDP file that names a's first video producer, and
\* a's second video producer has since been added to the streamer table.
C26_Witness ==
  /\ rooms["r1"] # 0 /\ Active(rooms["r1"])
  /\ Len(procs) = 1 /\ procs[1].state = "running"
  /\ task["a"].op = "idle"
  /\ \E n \in 1..Len(hls[rooms["r1"]].streamers) :
       hls[rooms["r1"]].streamers[n].video = <<"a", "video", 2>>
  /\ \E m \in 1..Len(files["r1"].sdp) :
       files["r1"].sdp[m].video = <<"a", "video", 1>>

\* The subprocesses of transcoder i that were sent SIGTERM by a stop, have not
\* exited and have not been sent SIGKILL.
Lingering(i) ==
  {p \in 1..Len(procs) : /\ procs[p].hls = i /\ procs[p].state = "running"
                         /\ procs[p].sigterm /\ ~procs[p].sigkill}

\* C27: when the 5 s timer of a stop of transcoder i expires while a
\* subprocess that the transcoder's stops sent SIGTERM has not exited, such a
\* subprocess is sent SIGKILL; and SIGKILL is only ever sent to a subprocess
\* that was sent SIGTERM before and has not exited.
C27_GracefulThenForce ==
  [][/\ \A i \in Insts :
          (timers'[i].kill < timers[i].kill /\ Lingering(i) # {})
            => \E p \in Lingering(i) : procs'[p].sigkill
     /\ \A p \in 1..Len(procs) :
          (procs'[p].sigkill /\ ~procs[p].sigkill)
            => procs[p].sigterm /\ procs[p].state = "running"]_vars

\* Subprocess p, the one transcoder i is transcoding with, exits or reports
\* an error in this step without having been sent a signal.
UnexpectedExit(p, i) ==
  /\ procs[p].hls = i /\ Active(i) /\ hls[i].ffmpegProcess = p
  /\ procs[p].state = "running" /\ ~procs[p].killed
  /\ procs'[p].state \in {"closed", "errored"}

\* C28: when the subprocess of a transcoding transcoder exits or reports an
\* error, the step ends in the state that stop() gives: isTranscoding is
\* false, the subprocess reference is cleared, get-hls-url for the room fails,
\* and one more cleanup timer is pending.
C28_ExitIsStop ==
  [][\A p \in 1..Len(procs) : \A i \in Insts :
       UnexpectedExit(p, i)
         => /\ cur' = stop([cur EXCEPT !.procs[p].state = procs'[p].state], i)
            /\ ~hls'[i].isTranscoding /\ hls'[i].ffmpegProcess = 0
            /\ timers'[i].cleanup = timers[i].cleanup + 1
            /\ ~getHlsUrl(cur', room[i].id).success]_vars

\* C28 witness: a subprocess that was never sent a signal has exited, its
\* transcoder is not transcoding and a cleanup timer is pending.
C28_Witness ==
  \E p \in 1..Len(procs) :
    /\ procs[p].state = "closed"
    /\ ~procs[p].sigterm /\ ~procs[p].sigkill
    /\ ~Active(procs[p].hls)
    /\ timers[procs[p].hls].cleanup > 0
    /\ rooms[room[procs[p].hls].id] = procs[p].hls
    /\ ~getHlsUrl(cur, room[procs[p].hls].id).success

\* From state st, checkAndStartTranscoding on transcoder i, the SDP write
\* succeeding, starts the pipeline with a new subprocess.
CanStart(st, i) ==
  LET st1 == checkAndStartTranscoding(st, i, TRUE) IN
  /\ st1.hls[i].isTranscoding
  /\ Len(st1.procs) = Len(st.procs) + 1
  /\ st1.hls[i].ffmpegProcess = Len(st.procs) + 1

\* C29: a produce step that calls checkAndStartTranscoding on a transcoder
\* that is not transcoding and spawns no subprocess leaves it not
\* transcoding and completes the request; the error event of the subprocess
\* a transcoder is transcoding with leaves it not transcoding; and after
\* either, as soon as two streamers are complete, checkAndStartTranscoding
\* starts the pipeline.
C29_StartFailureReverts ==
  [][/\ \A s \in Sockets :
          (ChecksStart(s) /\ ~Active(task[s].room) /\ Len(procs') = Len(procs))
            => /\ ~hls'[task[s].room].isTranscoding
               /\ Len(readyStreamers(hls'[task[s].room])) >= MinStreamers
                    => CanStart(cur', task[s].room)
     /\ \A p \in 1..Len(procs) : \A i \in Insts :
          (UnexpectedExit(p, i) /\ procs'[p].state = "errored")
            => /\ ~hls'[i].isTranscoding
               /\ Len(readyStreamers(hls'[i])) >= MinStreamers
                    => CanStart(cur', i)]_vars

\* C29 witness: the subprocess of r1's transcoder has reported an error, the
\* transcoder is not transcoding and two streamers are complete.
C29_Witness ==
  \E p \in 1..Len(procs) :
    /\ procs[p].state = "errored"
    /\ rooms["r1"] = procs[p].hls
    /\ ~Active(procs[p].hls)
    /\ Len(readyStreamers(hls[procs[p].hls])) >= MinStreamers
    /\ CanStart(cur, procs[p].hls)

\* Transcoder i, transcoding with subprocess p, stops transcoding in this step.
SessionEnds(i, p) ==
  /\ Active(i) /\ hls[i].ffmpegProcess = p
  /\ ~hls'[i].isTranscoding

ProducerIds == {<<s, k, 1>> : s \in Streamers, k \in Kinds}

\* The last step broadcast new-producer for producer p.
Announced(p) ==
  \E e \in out.emitted : e.event = "new-producer" /\ e.producerId = p

\* Producer q is in its room's index and its produce request has not returned.
Unannounced(q) ==
  \E t \in Sockets : task[t].op = "produce" /\ task[t].producer = q

\* C31: a producer q that is indexed while producer p is not yet created is
\* announced before p is; and no new-producer event of a peer reaches anyone
\* after the peer has disconnected.
C31_AnnouncedInCommitOrder ==
  /\ \A p \in ProducerIds : \A q \in ProducerIds :
       []((Unannounced(q) /\ p \notin AllProducers)
            => [](Announced(p) => ~Unannounced(q)))
  /\ [][\A e \in out'.emitted :
          (e.event = "new-producer" /\ e.to # {}) => connected[e.peerId]]_vars

\* The produce request of socket s has passed `await transport.consume(...)`
\* for producer p or has returned.
Recorded(s, p) ==
  ~(/\ task[s].op = "produce" /\ task[s].producer = p
    /\ task[s].pc \in {"createPlainTransport", "transport.consume"})

\* C32: with the produce requests of two peers interleaving, every indexed
\* producer whose addProducer has passed transport.consume has a producer of
\* its peer and kind registered as that peer's source; at most one subprocess is ever spawned,
\* and only in a step that finds two complete streamers; and when no request
\* is in flight and two streamers are complete the pipeline is transcoding
\* with one running subprocess.
C32_ConcurrentProduce ==
  /\ [](\A i \in Insts :
         /\ \A p \in room[i].producers :
              Recorded(p[1], p)
                => \E q \in ProducersOf(room[i], p[1], p[2]) :
                     Registered(hls[i], p[1], q)
         /\ Cardinality({q \in 1..Len(procs) : procs[q].hls = i}) <= 1
         /\ (InFlight = 0 /\ Len(readyStreamers(hls[i])) >= MinStreamers)
              => /\ Active(i) /\ hls[i].ffmpegProcess # 0
                 /\ Alive(hls[i].ffmpegProcess))
  /\ [][Len(procs') > Len(procs)
         => \E s \in Sockets :
              /\ ChecksStart(s) /\ ~Active(task[s].room)
              /\ Len(readyStreamers(hls[task[s].room])) >= MinStreamers
              /\ Len(procs') = Len(procs) + 1]_vars

\* C32 witness: the produce requests of a and b are suspended at
\* consumer.resume together, both streamers are complete, and the pipeline
\* has not been started yet.
C32_Witness ==
  /\ rooms["r1"] # 0 /\ ~Active(rooms["r1"])
  /\ \A s \in Streamers :
       /\ task[s].op = "produce" /\ task[s].pc = "consumer.resume"
       /\ task[s].room = rooms["r1"]
  /\ Len(readyStreamers(hls[rooms["r1"]])) = 2
  /\ Len(procs) = 0

\* The produce request of socket s, its producer already indexed, returns in
\* this step.
AddProducerEnds(s) ==
  /\ task[s].op = "produce"
  /\ task[s].pc \in {"createPlainTransport", "transport.consume",
                     "consumer.resume"}
  /\ task'[s].op = "idle"

\* C33: a produce whose producer is indexed is answered with success and the
\* producer id however addProducer ends; when createPlainTransport or
\* transport.consume failed the transcoder and the subprocesses are as
\* before; when the start failed the transcoder is not transcoding and
\* get-hls-url fails; and a step in which a subprocess exits or reports an
\* error sends nothing.
C33_PipelineErrorsStayInside ==
  [][/\ \A s \in Sockets :
          AddProducerEnds(s)
            => /\ out'.reply = Ok(s, "produce", task[s].producer)
               /\ task[s].producer \in room'[task[s].room].producers
               /\ task[s].pc # "consumer.resume"
                    => hls' = hls /\ procs' = procs
               /\ (/\ task[s].pc = "consumer.resume"
                   /\ ~Active(task[s].room) /\ Len(procs') = Len(procs))
                    => /\ ~hls'[task[s].room].isTranscoding
                       /\ ~getHlsUrl(cur', task[s].roomId).success
     /\ (\E p \in 1..Len(procs) : procs'[p].state # procs[p].state)
          => out' = NoOut]_vars

\* C33 witness: a produce of a was just answered with success although its
\* producer is not registered with the transcoder of r1.
C33_Witness ==
  /\ rooms["r1"] # 0
  /\ ProduceReplied("a") /\ out.reply.success
  /\ out.reply.value \in room[rooms["r1"]].producers
  /\ ~Registered(hls[rooms["r1"]], "a", out.reply.value)
  /\ ~getHlsUrl(cur, "r1").success

C35_ActiveKeepsFiles ==
  [][\A i \in Insts :
       (Active(i) /\ hls'[i].isTranscoding)
         => /\ files'[room[i].id].sdp = files[room[i].id].sdp
            /\ files[room[i].id].playlist => files'[room[i].id].playlist
            /\ files[room[i].id].dir => files'[room[i].id].dir]_vars

\* C36: a step in which a 5 s timer of transcoder i fires sends SIGKILL to no
\* subprocess that had not been sent SIGTERM by a stop: the subprocess the
\* transcoder is transcoding with is left alone.
C36_ForceKillHitsOnlyStopped ==
  [][\A i \in Insts :
       timers'[i].kill < timers[i].kill
         => \A p \in 1..Len(procs) :
              (~procs[p].sigterm \/ (Active(i) /\ hls[i].ffmpegProcess = p))
                => procs'[p] = procs[p]]_vars

\* Subprocess q of transcoder i, which a stop had sent SIGTERM while it was
\* the transcoder's subprocess, exits or reports an error in this step while
\* the transcoder is transcoding with another subprocess p.
LateExit(q, i, p) ==
  /\ procs[q].hls = i /\ procs[q].sigterm
  /\ procs[q].state = "running" /\ procs'[q].state # "running"
  /\ Active(i) /\ hls[i].ffmpegProcess = p /\ p # q /\ p # 0

\* C37: the exit or error event of a subprocess that a stop had already
\* signalled leaves a session started later as it is: the transcoder stays
\* transcoding with its subprocess, which is sent no signal, and no timer is
\* armed.
C37_LateExitIgnored ==
  [][\A i \in Insts : \A q \in 1..Len(procs) : \A p \in 1..Len(procs) :
       LateExit(q, i, p)
         => /\ hls'[i] = hls[i]
            /\ procs'[p] = procs[p]
            /\ timers'[i] = timers[i]]_vars

\* Room object i is the one registered under its id.
InRegistry(i) == rooms[room[i].id] = i

\* C38: a transcoder is transcoding only while its Room is the one registered
\* under its id, and a step that spawns a subprocess spawns it for the
\* transcoder of a registered Room.
C38_ActiveOnlyInRegistry ==
  /\ [](\A i \in Insts : Active(i) => InRegistry(i))
  /\ [][Len(procs') > Len(procs)
         => rooms[room[procs'[Len(procs')].hls].id]
              = procs'[Len(procs')].hls]_vars

\* A produce of some socket calls checkAndStartTranscoding on transcoder i in
\* this step.
ProduceChecks(i) == \E s \in Sockets : ChecksStart(s) /\ task[s].room = i

\* C39: a transcoder that is not transcoding becomes transcoding only in the
\* step of a produce that calls checkAndStartTranscoding on it; after any
\* other step (a timer, a subprocess exit or error, a disconnect, a join or
\* an earlier step of a produce) it is still not transcoding and get-hls-url
\* of its room, while registered, fails, however many complete peers the
\* room has.
C39_OnlyProduceStarts ==
  [][\A i \in Insts :
       (~Active(i) /\ ~ProduceChecks(i))
         => /\ ~hls'[i].isTranscoding
            /\ \A p \in 1..Len(procs') : procs'[p].hls = i => p <= Len(procs)
            /\ rooms'[room[i].id] = i
                 => ~getHlsUrl(cur', room[i].id).success]_vars

\* C39 witness: the viewer's departure stopped the pipeline, its subprocess
\* has exited and both timers have fired; a and b are members with complete
\* sets, and the pipeline is not transcoding.
C39_Witness ==
  /\ rooms["r1"] # 0 /\ ~connected["c"]
  /\ CompletePeers(rooms["r1"]) = {"a", "b"}
  /\ Len(readyStreamers(hls[rooms["r1"]])) >= MinStreamers
  /\ ~Active(rooms["r1"])
  /\ Len(procs) = 1 /\ procs[1].sigterm /\ procs[1].state = "closed"
  /\ timers[rooms["r1"]] = [kill |-> 0, cleanup |-> 0]
  /\ InFlight = 0
  /\ ~getHlsUrl(cur, "r1").success

\* C40: stop applied to a transcoder that is not transcoding returns the
\* state it was given, and stop applied twice is stop applied once; a step
\* that takes a transcoder from transcoding to not transcoding arms exactly
\* one deletion timer, and a step that starts and ends with it not
\* transcoding (the exit event after a stop, the close event after an error
\* event) arms no timer and sends none of its subprocesses SIGTERM.
C40_StopIdempotent ==
  /\ [](\A i \in Insts :
         /\ stop(stop(cur, i), i) = stop(cur, i)
         /\ ~Active(i) => stop(cur, i) = cur)
  /\ [][\A i \in Insts :
         /\ (Active(i) /\ ~hls'[i].isTranscoding)
              => timers'[i].cleanup = timers[i].cleanup + 1
         /\ (~Active(i) /\ ~hls'[i].isTranscoding)
              => /\ timers'[i].cleanup <= timers[i].cleanup
                 /\ timers'[i].kill <= timers[i].kill
                 /\ \A p \in 1..Len(procs) :
                      procs[p].hls = i
                        => procs'[p].sigterm = procs[p].sigterm]_vars

\* C40 witness: a departure stopped the pipeline of r1 and its subprocess then
\* exited, so stop ran twice; one deletion timer is pending.
C40_Witness ==
  /\ rooms["r1"] # 0 /\ ~Active(rooms["r1"])
  /\ Len(procs) = 1 /\ procs[1].hls = rooms["r1"]
  /\ procs[1].sigterm /\ procs[1].state = "closed"
  /\ timers[rooms["r1"]].cleanup = 1

====
